---- MODULE Spec2Model ----
(***************************************************************************)
(* One subscription of an AsyncObservable: the sink (AsyncSubscriber) that *)
(* AsyncObservable.subscribe builds, the AsyncSafeSubscriber it forwards   *)
(* to, the user's handlers, the subscribe routine (the producer) and, for  *)
(* forEach, the promise it returns.  JavaScript is single-threaded: every  *)
(* call of next/error/complete/unsubscribe runs to completion, so each is  *)
(* one action; the subscribe call is split where it hands control to the   *)
(* subscribe routine.                                                      *)
(***************************************************************************)
EXTENDS Integers, Sequences, FiniteSets, TLC

\* Bounds of the model.
MaxEmit == 3          \* next calls the producer makes; the k-th passes value k

Errs == {"e1", "e2"}  \* exception values thrown by handlers, routine, error(e)
TypeError == "TypeError"  \* calling an undefined handler: "x is not a function"
Excs == Errs \cup {TypeError}

VARIABLES
  pc,       \* where the subscribe call is: "idle", "sync", "returned", "threw"
  mode,     \* "subscribe" or "forEach"
  cfg,      \* which handlers the consumer supplied: [next, error, complete]
  sink,     \* the AsyncSubscriber returned by toAsyncSubscriber
  safe,     \* the AsyncSafeSubscriber that is sink.destination
  tokens,   \* promises returned by subscriber.next: "pending" or "resolved"
  promise,  \* the promise forEach returned: [state, value]
  prod,     \* the subscribe routine: [awaits, yielded, waitsOn, emitted]
  outcome,  \* what the subscribe call produced: [kind, exc]
  hist,     \* observed handler invocations and producer calls
  last,     \* the most recent producer call and what it did
  wrap      \* a second AsyncSubscriber constructed from the sink

vars ==
  <<pc, mode, cfg, sink, safe, tokens, promise, prod, outcome, hist, last, wrap>>

(***************************************************************************)
(* Return values of a call: nothing, a promise (index into tokens), or an  *)
(* exception thrown to the caller.                                         *)
(***************************************************************************)
Void == [kind |-> "void", tok |-> 0, exc |-> "none"]
Tok(i) == [kind |-> "token", tok |-> i, exc |-> "none"]
Throw(x) == [kind |-> "throw", tok |-> 0, exc |-> x]

\* What one invocation of a user handler does.
NextBehaviours == {Void, Tok(0)} \cup {Throw(x) : x \in Errs}
TermBehaviours == {Void} \cup {Throw(x) : x \in Errs}

\* Everything a call can change, passed through the calls as one record.
Heap ==
  [sink |-> sink, safe |-> safe, tokens |-> tokens, promise |-> promise,
   delivered |-> hist.delivered, errCalls |-> hist.errCalls,
   compCalls |-> hist.compCalls, nextThrew |-> hist.nextThrew,
   fnThrew |-> hist.fnThrew]

Res(h, ret) == [h |-> h, ret |-> ret]


(***************************************************************************)
(* The releasable base of both subscribers (rxjs Subscription/Subscriber,  *)
(* which AsyncSubscriber extends without overriding unsubscribe or add).   *)
(***************************************************************************)

\* this.unsubscribe() on the AsyncSafeSubscriber: it holds no teardown and
\* is not linked to the sink, so only its own flags change.
SafeUnsubscribe(h) ==
  IF h.safe.closed THEN h
  ELSE [h EXCEPT !.safe = [isStopped |-> TRUE, closed |-> TRUE]]

\* unsubscribe() on the sink: marks it stopped and closed and runs the
\* teardown attached to it.
SinkUnsubscribe(h) ==
  IF h.sink.closed THEN h
  ELSE [h EXCEPT !.sink.isStopped = TRUE,
                 !.sink.closed = TRUE,
                 !.sink.teardown = IF @ = "attached" THEN "ran" ELSE @]

\* sink.add(teardown): nothing and a promise (no unsubscribe method) are
\* ignored; a function is run at once when the sink is already closed and
\* kept for unsubscribe otherwise.
SinkAdd(h, td) ==
  IF td # "fn" THEN h
  ELSE IF h.sink.closed THEN [h EXCEPT !.sink.teardown = "ran"]
  ELSE [h EXCEPT !.sink.teardown = "attached"]

(***************************************************************************)
(* The promise forEach returns: resolve and reject settle it once.         *)
(***************************************************************************)
Reject(h, x) ==
  IF h.promise.state = "pending"
  THEN [h EXCEPT !.promise = [state |-> "rejected", value |-> x]]
  ELSE h

Resolve(h) ==
  IF h.promise.state = "pending"
  THEN [h EXCEPT !.promise = [state |-> "resolved", value |-> "undefined"]]
  ELSE h

\* Promise.resolve(x): a promise is returned as it is, any other value
\* becomes a new promise that is already resolved.
PromiseResolve(h, ret) ==
  IF ret.kind = "token" THEN Res(h, ret)
  ELSE Res([h EXCEPT !.tokens = Append(@, "resolved")], Tok(Len(h.tokens) + 1))

(***************************************************************************)
(* The user's handlers.  beh is what this invocation of the handler does.  *)
(***************************************************************************)

\* Variant: the asynchronous branch rejects but does not unsubscribe.
ForEachNext_NoUnsubscribe(h, v, beh) ==
  LET h1 == [h EXCEPT !.delivered = Append(@, v),
                      !.fnThrew = IF beh.kind = "throw"
                                  THEN @ \cup {[phase |-> pc, exc |-> beh.exc,
                                                at |-> Len(h.delivered) + 1]}
                                  ELSE @]
  IN IF pc = "returned"
     THEN IF beh.kind = "throw" THEN Res(Reject(h1, beh.exc), Void)
          ELSE Res(h1, Void)
     ELSE IF beh.kind = "throw" THEN Res(h1, beh) ELSE Res(h1, Void)

\* The function given to forEach, wrapped as forEach wraps it.  The
\* variable subscription is assigned once subscribe has returned.
ForEachNext(h, v, beh) ==
  LET h1 == [h EXCEPT !.delivered = Append(@, v),
                      !.fnThrew = IF beh.kind = "throw"
                                  THEN @ \cup {[phase |-> pc, exc |-> beh.exc,
                                                at |-> Len(h.delivered) + 1]}
                                  ELSE @]
  IN IF pc = "returned"
     THEN IF beh.kind = "throw"
          THEN Res(SinkUnsubscribe(Reject(h1, beh.exc)), Void)
          ELSE Res(h1, Void)
     ELSE IF beh.kind = "throw" THEN Res(h1, beh) ELSE Res(h1, Void)

\* The next function given to subscribe: it returns nothing, returns a
\* new pending promise, or throws.
SubscribeNext(h, v, beh) ==
  LET h1 == [h EXCEPT !.delivered = Append(@, v)]
  IN IF beh.kind = "token"
     THEN Res([h1 EXCEPT !.tokens = Append(@, "pending")],
              Tok(Len(h.tokens) + 1))
     ELSE Res(h1, beh)

\* fn.call(this._context, value) for the next handler of the subscription.
UserNext(h, v, beh) ==
  LET r == IF mode = "forEach" THEN ForEachNext(h, v, beh)
           ELSE SubscribeNext(h, v, beh)
  IN IF r.ret.kind = "throw"
     THEN Res([r.h EXCEPT !.nextThrew = @ \cup {[phase |-> pc, exc |-> r.ret.exc]}],
              r.ret)
     ELSE r

\* Variant: forEach passes resolve where reject belongs.
UserError_Swapped(h, x, beh) ==
  IF ~cfg.error THEN Res(h, Throw(TypeError))
  ELSE LET h1 == [h EXCEPT !.errCalls = @ + 1]
       IN IF mode = "forEach" THEN Res(Resolve(h1), Void) ELSE Res(h1, beh)

\* this._error(err) on the safe subscriber: the user's error function, or
\* forEach's reject; undefined when the consumer gave none.
UserError(h, x, beh) ==
  IF ~cfg.error THEN Res(h, Throw(TypeError))
  ELSE LET h1 == [h EXCEPT !.errCalls = @ + 1]
       IN IF mode = "forEach" THEN Res(Reject(h1, x), Void) ELSE Res(h1, beh)

\* this._complete() on the safe subscriber.
UserComplete(h, beh) ==
  IF ~cfg.complete THEN Res(h, Throw(TypeError))
  ELSE LET h1 == [h EXCEPT !.compCalls = @ + 1]
       IN IF mode = "forEach" THEN Res(Resolve(h1), Void) ELSE Res(h1, beh)

(***************************************************************************)
(* AsyncSafeSubscriber                                                     *)
(***************************************************************************)
\* Variant: a late handler exception is rethrown without unsubscribing.
tryOrUnsub_NoUnsub(h, v, beh) == UserNext(h, v, beh)

__tryOrUnsub(h, v, beh) ==
  LET r == UserNext(h, v, beh)
  IN IF r.ret.kind = "throw" THEN Res(SafeUnsubscribe(r.h), r.ret) ELSE r

\* Variant: the defensive call flags the sync error but loses its value.
tryOrSetError_NoValue(h, v, beh) ==
  LET r == UserNext(h, v, beh)
  IN IF r.ret.kind = "throw"
     THEN [h |-> [r.h EXCEPT !.sink.syncErrorThrown = TRUE],
           syncError |-> TRUE, callResult |-> Void]
     ELSE LET p == PromiseResolve(r.h, r.ret)
          IN [h |-> p.h, syncError |-> FALSE, callResult |-> p.ret]

\* Variant: the defensive call drops the handler's result.
tryOrSetError_DropResult(h, v, beh) ==
  LET r == UserNext(h, v, beh)
  IN IF r.ret.kind = "throw"
     THEN [h |-> [r.h EXCEPT !.sink.syncErrorValue = r.ret.exc,
                             !.sink.syncErrorThrown = TRUE],
           syncError |-> TRUE, callResult |-> Void]
     ELSE [h |-> r.h, syncError |-> FALSE, callResult |-> Void]

__tryOrSetError(h, v, beh) ==
  LET r == UserNext(h, v, beh)
  IN IF r.ret.kind = "throw"
     THEN [h |-> [r.h EXCEPT !.sink.syncErrorValue = r.ret.exc,
                             !.sink.syncErrorThrown = TRUE],
           syncError |-> TRUE, callResult |-> Void]
     ELSE LET p == PromiseResolve(r.h, r.ret)
          IN [h |-> p.h, syncError |-> FALSE, callResult |-> p.ret]

\* Variant: next drops a value while a promise of an earlier one is pending.
SafeNext_Backpressure(h, v, beh) ==
  IF ~h.safe.isStopped /\ cfg.next
     /\ \A i \in 1..Len(h.tokens) : h.tokens[i] = "resolved"
  THEN IF ~h.sink.syncErrorThrowable
       THEN __tryOrUnsub(h, v, beh)
       ELSE LET result == __tryOrSetError(h, v, beh)
            IN IF result.syncError
               THEN Res(SafeUnsubscribe(result.h), Void)
               ELSE Res(result.h, result.callResult)
  ELSE Res(h, Void)

\* Variant: next takes the defensive path whatever the parent's flag says.
SafeNext_AlwaysDefensive(h, v, beh) ==
  IF ~h.safe.isStopped /\ cfg.next
  THEN LET result == __tryOrSetError(h, v, beh)
       IN IF result.syncError
          THEN Res(SafeUnsubscribe(result.h), Void)
          ELSE Res(result.h, result.callResult)
  ELSE Res(h, Void)

\* Variant: next does not look at isStopped.
SafeNext_NoStopCheck(h, v, beh) ==
  IF cfg.next
  THEN IF ~h.sink.syncErrorThrowable
       THEN __tryOrUnsub(h, v, beh)
       ELSE LET result == __tryOrSetError(h, v, beh)
            IN IF result.syncError
               THEN Res(SafeUnsubscribe(result.h), Void)
               ELSE Res(result.h, result.callResult)
  ELSE Res(h, Void)

SafeNext(h, v, beh) ==
  IF ~h.safe.isStopped /\ cfg.next
  THEN IF ~h.sink.syncErrorThrowable
       THEN __tryOrUnsub(h, v, beh)
       ELSE LET result == __tryOrSetError(h, v, beh)
            IN IF result.syncError
               THEN Res(SafeUnsubscribe(result.h), Void)
               ELSE Res(result.h, result.callResult)
  ELSE Res(h, Void)

\* Variant: error reaches the user's function although the safe
\* subscriber is stopped.
SafeError_NoStopCheck(h, x, beh) ==
  UserError([h EXCEPT !.safe.isStopped = TRUE], x, beh)

\* error(err) as inherited: marks the safe subscriber stopped and calls
\* this._error, which the constructor set to the user's function.
SafeError(h, x, beh) ==
  IF ~h.safe.isStopped
  THEN UserError([h EXCEPT !.safe.isStopped = TRUE], x, beh)
  ELSE Res(h, Void)

\* Variant: complete stops the safe subscriber without calling the handler.
SafeComplete_Skip(h, beh) ==
  IF ~h.safe.isStopped THEN Res([h EXCEPT !.safe.isStopped = TRUE], Void)
  ELSE Res(h, Void)

SafeComplete(h, beh) ==
  IF ~h.safe.isStopped
  THEN UserComplete([h EXCEPT !.safe.isStopped = TRUE], beh)
  ELSE Res(h, Void)

(***************************************************************************)
(* AsyncSubscriber (the sink)                                              *)
(***************************************************************************)

\* this.destination.next(value): the empty observer's next does nothing.
_next(h, v, beh) ==
  IF h.sink.destination = "safe" THEN SafeNext(h, v, beh) ELSE Res(h, Void)

\* Variant: next forwards although the sink is stopped.
SinkNext_NoGuard(h, v, beh) == _next(h, v, beh)

SinkNext(h, v, beh) ==
  IF ~h.sink.isStopped THEN _next(h, v, beh) ELSE Res(h, Void)

\* error(err) as inherited: stop, destination.error(err), then unsubscribe;
\* the empty observer's error throws err.
SinkError(h, x, beh) ==
  IF ~h.sink.isStopped
  THEN LET h1 == [h EXCEPT !.sink.isStopped = TRUE]
           r == IF h.sink.destination = "safe" THEN SafeError(h1, x, beh)
                ELSE Res(h1, Throw(x))
       IN IF r.ret.kind = "throw" THEN r ELSE Res(SinkUnsubscribe(r.h), Void)
  ELSE Res(h, Void)

\* Variant: complete runs although the sink is stopped.
SinkComplete_NoGuard(h, beh) ==
  LET h1 == [h EXCEPT !.sink.isStopped = TRUE]
      r == IF h.sink.destination = "safe" THEN SafeComplete(h1, beh)
           ELSE Res(h1, Void)
  IN IF r.ret.kind = "throw" THEN r ELSE Res(SinkUnsubscribe(r.h), Void)

SinkComplete(h, beh) ==
  IF ~h.sink.isStopped
  THEN LET h1 == [h EXCEPT !.sink.isStopped = TRUE]
           r == IF h.sink.destination = "safe" THEN SafeComplete(h1, beh)
                ELSE Res(h1, Void)
       IN IF r.ret.kind = "throw" THEN r ELSE Res(SinkUnsubscribe(r.h), Void)
  ELSE Res(h, Void)

\* new AsyncSubscriber(...) as toAsyncSubscriber calls it: with no handler
\* at all the destination is the empty observer, otherwise a safe
\* subscriber and the sink can throw sync errors.
NewSink(n, e, c) ==
  [destination |-> IF n \/ e \/ c THEN "safe" ELSE "empty",
   isStopped |-> FALSE, closed |-> FALSE,
   syncErrorThrowable |-> (n \/ e \/ c),
   syncErrorThrown |-> FALSE, syncErrorValue |-> "none",
   teardown |-> "none"]

NewSafe == [isStopped |-> FALSE, closed |-> FALSE]


(***************************************************************************)
(* AsyncObservable                                                         *)
(***************************************************************************)

\* Variant: subscribe closes the window but does not rethrow.
AfterRoutine_NoRethrow(h, td) ==
  LET h1 == SinkAdd(h, td)
  IN IF h1.sink.syncErrorThrowable
     THEN Res([h1 EXCEPT !.sink.syncErrorThrowable = FALSE], Void)
     ELSE Res(h1, Void)

\* subscribe after the subscribe routine has returned td: attach it, close
\* the synchronous window and rethrow a recorded sync error, else return
\* the sink.
AfterRoutine(h, td) ==
  LET h1 == SinkAdd(h, td)
  IN IF h1.sink.syncErrorThrowable
     THEN LET h2 == [h1 EXCEPT !.sink.syncErrorThrowable = FALSE]
          IN IF h2.sink.syncErrorThrown
             THEN Res(h2, Throw(h2.sink.syncErrorValue))
             ELSE Res(h2, Void)
     ELSE Res(h1, Void)

\* Variant: the promise is resolved as soon as subscribe returns.
Executor_ResolveOnReturn(r) ==
  IF mode = "forEach"
  THEN IF r.ret.kind = "throw" THEN Reject(r.h, r.ret.exc) ELSE Resolve(r.h)
  ELSE r.h

\* The executor forEach gives to the promise constructor: an exception
\* thrown by subscribe rejects the promise.
Executor(r) ==
  IF mode = "forEach" /\ r.ret.kind = "throw" THEN Reject(r.h, r.ret.exc)
  ELSE r.h

(***************************************************************************)
(* State machine                                                           *)
(***************************************************************************)
\* No second subscriber has been constructed.
NoWrap ==
  [made |-> FALSE, attached |-> FALSE, isStopped |-> FALSE, closed |-> FALSE,
   released |-> FALSE, sinkChanged |-> FALSE]

NoCall ==
  [op |-> "none", value |-> 0, exc |-> "none", ret |-> Void, phase |-> "idle",
   pre |-> [sink |-> NewSink(FALSE, FALSE, FALSE), safe |-> NewSafe,
            tokens |-> <<>>, fired |-> FALSE, released |-> FALSE,
            promise |-> "none", threw |-> FALSE],
   invoked |-> "none", threw |-> "none", beh |-> Void, changed |-> FALSE]

Init ==
  /\ pc = "idle"
  /\ mode = "subscribe"
  /\ cfg = [next |-> FALSE, error |-> FALSE, complete |-> FALSE]
  /\ sink = NewSink(FALSE, FALSE, FALSE)
  /\ safe = NewSafe
  /\ tokens = <<>>
  /\ promise = [state |-> "none", value |-> "undefined"]
  /\ prod = [awaits |-> FALSE, yielded |-> FALSE, waitsOn |-> 0, emitted |-> 0]
  /\ outcome = [kind |-> "none", exc |-> "none"]
  /\ hist = [delivered |-> <<>>, issued |-> <<>>, phases |-> <<>>,
             errCalls |-> 0, compCalls |-> 0, nextThrew |-> {}, fnThrew |-> {},
             fired |-> FALSE, released |-> FALSE, routineThrew |-> "none",
             returned |-> "none", settledBy |-> <<>>]
  /\ last = NoCall
  /\ wrap = NoWrap

SetHeap(h) ==
  /\ sink' = h.sink
  /\ safe' = h.safe
  /\ tokens' = h.tokens
  /\ promise' = h.promise

Pending(toks) == {i \in 1..Len(toks) : toks[i] = "pending"}

\* The subscription delivers: neither subscriber is stopped and there is a
\* next handler to deliver to.
Active ==
  /\ sink.destination = "safe"
  /\ ~sink.isStopped
  /\ ~safe.isStopped
  /\ cfg.next

Snapshot ==
  [sink |-> sink, safe |-> safe, tokens |-> tokens,
   fired |-> hist.fired, released |-> hist.released,
   promise |-> promise.state,
   threw |-> (hist.nextThrew # {} \/ hist.fnThrew # {})]

\* What a producer call did, as seen from outside.
Invoked(h) ==
  IF Len(h.delivered) > Len(hist.delivered) THEN "next"
  ELSE IF h.errCalls > hist.errCalls THEN "error"
  ELSE IF h.compCalls > hist.compCalls THEN "complete"
  ELSE "none"

\* The exception the subscription's next handler threw in this call.
Threw(h) ==
  IF h.nextThrew = hist.nextThrew THEN "none"
  ELSE (CHOOSE t \in h.nextThrew \ hist.nextThrew : TRUE).exc

\* beh is what the user's error or complete function did when this call
\* invoked it.
Record(op, v, x, r, beh) ==
  last' = [op |-> op, value |-> v, exc |-> x, ret |-> r.ret, phase |-> pc,
           pre |-> Snapshot, invoked |-> Invoked(r.h), threw |-> Threw(r.h),
           beh |-> IF Invoked(r.h) \in {"error", "complete"} /\ mode = "subscribe"
                   THEN beh ELSE Void,
           changed |-> (r.h # Heap)]

\* The history after a step that leaves the heap h: who settled the
\* forEach promise, and what the handlers were seen to do.
Seen(h, who) ==
  [hist EXCEPT !.delivered = h.delivered,
               !.errCalls = h.errCalls,
               !.compCalls = h.compCalls,
               !.nextThrew = h.nextThrew,
               !.fnThrew = h.fnThrew,
               !.settledBy = IF h.promise # promise THEN Append(@, who) ELSE @]

\* observable.subscribe(next, error, complete) up to the call of the
\* subscribe routine; aw says whether the routine awaits each next call.
Subscribe(n, e, c, aw) ==
  /\ pc = "idle"
  /\ pc' = "sync"
  /\ mode' = "subscribe"
  /\ cfg' = [next |-> n, error |-> e, complete |-> c]
  /\ sink' = NewSink(n, e, c)
  /\ safe' = NewSafe
  /\ prod' = [prod EXCEPT !.awaits = aw]
  /\ promise' = [state |-> "none", value |-> "undefined"]
  /\ UNCHANGED <<tokens, outcome, hist, last, wrap>>

\* observable.forEach(fn): a new promise whose executor subscribes with
\* the wrapped fn, reject and resolve.
ForEach(aw) ==
  /\ pc = "idle"
  /\ pc' = "sync"
  /\ mode' = "forEach"
  /\ cfg' = [next |-> TRUE, error |-> TRUE, complete |-> TRUE]
  /\ sink' = NewSink(TRUE, TRUE, TRUE)
  /\ safe' = NewSafe
  /\ prod' = [prod EXCEPT !.awaits = aw]
  /\ promise' = [state |-> "pending", value |-> "undefined"]
  /\ UNCHANGED <<tokens, outcome, hist, last, wrap>>

\* The subscribe routine can make a call: it has been started, is not
\* suspended at an await inside the synchronous subscribe call, and the
\* promise it awaits, if any, has resolved.
CanRun ==
  /\ pc # "idle"
  /\ ~(prod.yielded /\ pc = "sync")
  /\ prod.waitsOn # 0 => tokens[prod.waitsOn] = "resolved"

\* subscriber.next(v) by the subscribe routine; an awaiting routine then
\* suspends on what the call returned.
ProducerNext(beh) ==
  /\ CanRun
  /\ prod.emitted < MaxEmit
  /\ LET v == prod.emitted + 1
         r == SinkNext(Heap, v, beh)
     IN /\ SetHeap(r.h)
        /\ hist' = [Seen(r.h, "next") EXCEPT
                      !.issued = IF Active THEN Append(@, v) ELSE @,
                      !.phases = IF Invoked(r.h) = "next" THEN Append(@, pc) ELSE @]
        /\ prod' = [prod EXCEPT !.emitted = v,
                                !.yielded = prod.awaits /\ r.ret.kind # "throw",
                                !.waitsOn = IF prod.awaits THEN r.ret.tok ELSE 0]
        /\ Record("next", v, "none", r, beh)
  /\ UNCHANGED <<pc, mode, cfg, outcome, wrap>>

\* subscriber.error(x) by the subscribe routine.
ProducerError(x, beh) ==
  /\ CanRun
  /\ LET r == SinkError(Heap, x, beh)
     IN /\ SetHeap(r.h)
        /\ hist' = [Seen(r.h, "error") EXCEPT !.fired = @ \/ ~sink.isStopped]
        /\ Record("error", 0, x, r, beh)
  /\ prod' = [prod EXCEPT !.yielded = FALSE, !.waitsOn = 0]
  /\ UNCHANGED <<pc, mode, cfg, outcome, wrap>>

\* subscriber.complete() by the subscribe routine.
ProducerComplete(beh) ==
  /\ CanRun
  /\ LET r == SinkComplete(Heap, beh)
     IN /\ SetHeap(r.h)
        /\ hist' = [Seen(r.h, "complete") EXCEPT !.fired = @ \/ ~sink.isStopped]
        /\ Record("complete", 0, "none", r, beh)
  /\ prod' = [prod EXCEPT !.yielded = FALSE, !.waitsOn = 0]
  /\ UNCHANGED <<pc, mode, cfg, outcome, wrap>>

\* The subscribe routine returns td to subscribe ("none", a teardown "fn",
\* or the "promise" of an async routine), and subscribe finishes.
RoutineReturn(td) ==
  /\ pc = "sync"
  /\ (td = "promise") <=> prod.awaits
  /\ LET r == AfterRoutine(Heap, td)
     IN /\ SetHeap(Executor(r))
        /\ pc' = IF r.ret.kind = "throw" THEN "threw" ELSE "returned"
        /\ outcome' = IF r.ret.kind = "throw"
                      THEN [kind |-> "threw", exc |-> r.ret.exc]
                      ELSE [kind |-> "handle", exc |-> "none"]
        /\ hist' = [Seen(Executor(r), "subscribe") EXCEPT !.returned = td]
  /\ UNCHANGED <<mode, cfg, prod, last, wrap>>

\* The subscribe routine itself throws x: nothing in subscribe catches it.
RoutineThrow(x) ==
  /\ pc = "sync"
  /\ ~prod.awaits
  /\ SetHeap(Executor(Res(Heap, Throw(x))))
  /\ pc' = "threw"
  /\ outcome' = [kind |-> "threw", exc |-> x]
  /\ hist' = [Seen(Executor(Res(Heap, Throw(x))), "subscribe") EXCEPT
                !.routineThrew = x]
  /\ UNCHANGED <<mode, cfg, prod, last, wrap>>

\* The consumer releases the handle subscribe returned.
Unsubscribe ==
  /\ mode = "subscribe"
  /\ outcome.kind = "handle"
  /\ SetHeap(SinkUnsubscribe(Heap))
  /\ hist' = [hist EXCEPT !.released = TRUE]
  /\ UNCHANGED <<pc, mode, cfg, prod, outcome, last, wrap>>

\* A promise returned by the next handler resolves.  (One that rejects
\* ends an awaiting routine, which is the same to the subscription as one
\* that stays pending.)
Settle(i) ==
  /\ i \in Pending(tokens)
  /\ tokens' = [tokens EXCEPT ![i] = "resolved"]
  /\ UNCHANGED <<pc, mode, cfg, sink, safe, promise, prod, outcome, hist, last, wrap>>

Next ==
  \/ \E n, e, c, aw \in BOOLEAN : Subscribe(n, e, c, aw)
  \/ \E aw \in BOOLEAN : ForEach(aw)
  \/ \E beh \in NextBehaviours : ProducerNext(beh)
  \/ \E x \in Errs, beh \in TermBehaviours : ProducerError(x, beh)
  \/ \E beh \in TermBehaviours : ProducerComplete(beh)
  \/ \E td \in {"none", "fn", "promise"} : RoutineReturn(td)
  \/ \E x \in Excs : RoutineThrow(x)
  \/ Unsubscribe
  \/ \E i \in 1..MaxEmit : Settle(i)

Spec == Init /\ [][Next]_vars


(***************************************************************************)
(* A second AsyncSubscriber B constructed from the sink A, as              *)
(* new AsyncSubscriber(A): B forwards to A and is added to A.              *)
(***************************************************************************)

\* unsubscribe() on B: B holds no teardown, only its own flags change.
WrapClose(w) ==
  IF w.closed THEN w
  ELSE [w EXCEPT !.isStopped = TRUE, !.closed = TRUE, !.attached = FALSE]

\* Variant: the constructor forwards to A but does not add B to it.
NewWrap_NotAdded(h) ==
  [made |-> TRUE, attached |-> FALSE, isStopped |-> FALSE, closed |-> FALSE,
   released |-> FALSE, sinkChanged |-> FALSE]

\* The constructor's branch for an AsyncSubscriber argument:
\* this.destination = A; A.add(this).  add unsubscribes B at once when A
\* is already closed.
NewWrap(h) ==
  IF h.sink.closed
  THEN [made |-> TRUE, attached |-> FALSE, isStopped |-> TRUE, closed |-> TRUE,
        released |-> FALSE, sinkChanged |-> FALSE]
  ELSE [made |-> TRUE, attached |-> TRUE, isStopped |-> FALSE, closed |-> FALSE,
        released |-> FALSE, sinkChanged |-> FALSE]

\* A, when it unsubscribes, unsubscribes what was added to it.
Cascade(w, h) ==
  IF w.attached /\ h.sink.closed /\ ~sink.closed THEN WrapClose(w) ELSE w

\* B.next(v): forwards to A unless B is stopped.
WrapNextCall(w, h, v, beh) ==
  IF ~w.isStopped THEN SinkNext(h, v, beh) ELSE Res(h, Void)

\* B.complete() as inherited: stop B, A.complete(), then unsubscribe B.
WrapCompleteCall(w, h, beh) ==
  IF ~w.isStopped
  THEN LET r == SinkComplete(h, beh)
           w1 == Cascade([w EXCEPT !.isStopped = TRUE], r.h)
       IN [h |-> r.h, ret |-> r.ret,
           w |-> IF r.ret.kind = "throw" THEN w1 ELSE WrapClose(w1)]
  ELSE [h |-> h, ret |-> Void, w |-> w]

WrapConstruct ==
  /\ pc # "idle"
  /\ ~wrap.made
  /\ wrap' = NewWrap(Heap)
  /\ UNCHANGED <<pc, mode, cfg, sink, safe, tokens, promise, prod, outcome,
                 hist, last>>

WrapNext(beh) ==
  /\ wrap.made
  /\ prod.emitted < MaxEmit
  /\ LET v == prod.emitted + 1
         r == WrapNextCall(wrap, Heap, v, beh)
     IN /\ SetHeap(r.h)
        /\ hist' = [Seen(r.h, "next") EXCEPT
                      !.issued = IF Active /\ ~wrap.isStopped
                                 THEN Append(@, v) ELSE @,
                      !.phases = IF Invoked(r.h) = "next" THEN Append(@, pc) ELSE @]
        /\ prod' = [prod EXCEPT !.emitted = v]
        /\ Record("next", v, "none", r, beh)
        /\ wrap' = Cascade(wrap, r.h)
  /\ UNCHANGED <<pc, mode, cfg, outcome>>

WrapComplete(beh) ==
  /\ wrap.made
  /\ LET r == WrapCompleteCall(wrap, Heap, beh)
     IN /\ SetHeap(r.h)
        /\ hist' = [Seen(r.h, "complete") EXCEPT
                      !.fired = @ \/ (~sink.isStopped /\ ~wrap.isStopped)]
        /\ Record("complete", 0, "none", r, beh)
        /\ wrap' = r.w
  /\ UNCHANGED <<pc, mode, cfg, prod, outcome>>

\* B.unsubscribe() by whoever holds B.
WrapUnsubscribe ==
  /\ wrap.made
  /\ wrap' = [WrapClose(wrap) EXCEPT !.released = TRUE]
  /\ UNCHANGED <<pc, mode, cfg, sink, safe, tokens, promise, prod, outcome,
                 hist, last>>

\* A.unsubscribe() by whoever holds A.
SinkRelease ==
  /\ pc # "idle"
  /\ SetHeap(SinkUnsubscribe(Heap))
  /\ hist' = [hist EXCEPT !.released = TRUE]
  /\ wrap' = Cascade(wrap, SinkUnsubscribe(Heap))
  /\ UNCHANGED <<pc, mode, cfg, prod, outcome, last>>

NextShared ==
  \/ \E n, e, c \in BOOLEAN : Subscribe(n, e, c, FALSE)
  \/ \E td \in {"none", "fn"} : RoutineReturn(td)
  \/ WrapConstruct
  \/ \E beh \in NextBehaviours : WrapNext(beh)
  \/ \E beh \in TermBehaviours : WrapComplete(beh)
  \/ WrapUnsubscribe
  \/ SinkRelease

SpecShared == Init /\ [][NextShared]_vars

(***************************************************************************)
(* Properties                                                              *)
(***************************************************************************)
AllResolved(toks) == \A i \in 1..Len(toks) : toks[i] = "resolved"

\* The subscription was delivering when the last producer call was made.
WasActive == ~last.pre.sink.isStopped /\ ~last.pre.safe.isStopped

NoOp == last.invoked = "none" /\ ~last.changed /\ last.ret.kind # "throw"

SyncThrows == {t \in hist.nextThrew : t.phase = "sync"}

\* C1 as stated: when the next handler throws e during an emission made
\* synchronously inside subscribe, the subscribe call throws exactly e.
C1_Original ==
  \A t \in SyncThrows :
    pc # "sync" => outcome = [kind |-> "threw", exc |-> t.exc]

\* C1 amended: when the next handler throws e during an emission made
\* synchronously inside subscribe, the subscribe call throws and returns no
\* handle; it throws exactly e when the subscribe routine returns normally,
\* and the routine's own exception when the routine itself throws afterwards.
C1_SyncErrorSurfaces ==
  \A t \in SyncThrows :
    pc # "sync" =>
      /\ outcome.kind = "threw"
      /\ outcome.exc = IF hist.routineThrew = "none" THEN t.exc
                       ELSE hist.routineThrew

C1_Witness ==
  \E t \in SyncThrows :
    /\ pc = "threw"
    /\ mode = "subscribe"
    /\ hist.routineThrew = "none"
    /\ outcome.exc = t.exc

\* C2: when the next handler throws e on an emission made after subscribe
\* has returned, subscribe had returned the handle, e is thrown out of that
\* subscriber.next call, and e is not recorded as a sync error.
C2_LateErrorAtCallSite ==
  (last.op = "next" /\ last.phase = "returned" /\ last.threw # "none") =>
    /\ outcome.kind = "handle"
    /\ last.ret = Throw(last.threw)
    /\ ~sink.syncErrorThrown
    /\ sink.syncErrorValue = "none"

C2_Witness ==
  /\ last.op = "next"
  /\ last.phase = "returned"
  /\ last.threw = "e1"
  /\ last.ret = Throw("e1")
  /\ last.value = 2

\* C3: the error and complete handlers are invoked at most once in total,
\* and never once the subscription is released or has terminated.
C3_OneTerminalSignal ==
  /\ hist.errCalls + hist.compCalls <= 1
  /\ last.invoked \in {"error", "complete"} =>
       /\ WasActive
       /\ ~last.pre.fired
       /\ ~last.pre.released
       /\ ~last.pre.sink.closed
       /\ ~last.pre.safe.closed

C3_Witness ==
  /\ mode = "subscribe"
  /\ hist.errCalls = 1
  /\ hist.released
  /\ last.op = "complete"
  /\ last.pre.fired

\* C4: with a subscribe routine that awaits what each subscriber.next call
\* returns, the next handler is never invoked while a promise it returned
\* earlier is pending, and the complete handler is invoked only when all of
\* them have resolved; the first, synchronous emission included.
C4_AwaitingProducerNoOverlap ==
  (prod.awaits /\ last.invoked \in {"next", "complete"}) =>
    AllResolved(last.pre.tokens)

C4_Witness ==
  /\ prod.awaits
  /\ mode = "subscribe"
  /\ hist.phases = <<"sync", "returned", "returned">>
  /\ hist.delivered = <<1, 2, 3>>
  /\ Len(tokens) = 3
  /\ last.invoked = "complete"

\* C5: the next handler is invoked with exactly the values the producer
\* passed to subscriber.next while the subscription was active, in order.
C5_DeliveredInOrder == hist.delivered = hist.issued

C5_Witness ==
  /\ ~prod.awaits
  /\ hist.delivered = <<1, 2, 3>>
  /\ Pending(tokens) = {1, 2, 3}

\* C6: once complete or error has fired on the subscriber, a later call of
\* next, error or complete invokes no handler, changes nothing and does
\* not throw.
C6_TerminationIdempotent == last.pre.fired => NoOp

C6_Witness ==
  /\ last.pre.fired
  /\ last.op = "next"
  /\ cfg.next
  /\ hist.compCalls = 1

\* C7: the forEach promise resolves once, when the producer invokes
\* complete, with no value; nothing else resolves it and nothing settles it
\* again.
C7_ForEachResolvesOnComplete ==
  mode = "forEach" =>
    /\ promise.state = "resolved" =>
         promise.value = "undefined" /\ hist.settledBy = <<"complete">>
    /\ (last.op = "complete" /\ WasActive /\ last.pre.promise = "pending") =>
         promise.state = "resolved"

C7_Witness ==
  /\ mode = "forEach"
  /\ promise.state = "resolved"
  /\ hist.delivered = <<1, 2>>
  /\ last.op = "error"

\* C8: the forEach promise rejects once, when the producer invokes
\* error(e), with the value e; later producer calls leave it as it is.
C8_ForEachRejectsOnError ==
  mode = "forEach" =>
    /\ Len(hist.settledBy) <= 1
    /\ hist.settledBy = <<"error">> => promise.state = "rejected"
    /\ (last.op = "error" /\ WasActive /\ last.pre.promise = "pending") =>
         /\ promise = [state |-> "rejected", value |-> last.exc]
         /\ hist.settledBy = <<"error">>

C8_Witness ==
  /\ mode = "forEach"
  /\ hist.settledBy = <<"error">>
  /\ promise = [state |-> "rejected", value |-> "e1"]
  /\ last.op = "complete"

\* C9 as stated: if the function given to forEach throws e on a value,
\* emitted inside subscribe or afterwards, the promise rejects with e and
\* the function is not invoked for any later value.
C9_Original ==
  mode = "forEach" =>
    \A t \in hist.fnThrew :
      /\ Len(hist.delivered) = t.at
      /\ pc # "sync" => promise = [state |-> "rejected", value |-> t.exc]

\* C9 amended: if the function given to forEach throws e on a value, it is
\* not invoked for any later value, and the promise rejects with e unless
\* the subscribe routine itself threw during the synchronous subscribe
\* call, in which case the promise is rejected with the routine's exception.
C9_ForEachHandlerThrow ==
  mode = "forEach" =>
    \A t \in hist.fnThrew :
      /\ Len(hist.delivered) = t.at
      /\ pc # "sync" =>
           promise = [state |-> "rejected",
                      value |-> IF hist.routineThrew = "none" THEN t.exc
                                ELSE hist.routineThrew]

C9_Witness ==
  \E t \in hist.fnThrew :
    /\ t.phase = "returned"
    /\ t.at = 2
    /\ prod.emitted = 3
    /\ promise = [state |-> "rejected", value |-> t.exc]

\* C10: after the consumer unsubscribes the handle, the teardown the
\* subscribe routine returned has run, and a later next, error or complete
\* by the producer is a no-op that reaches no handler.
C10_ReleaseStopsDelivery ==
  hist.released =>
    /\ hist.returned = "fn" => sink.teardown = "ran"
    /\ last.pre.released => NoOp

C10_Witness ==
  /\ hist.released
  /\ hist.returned = "fn"
  /\ sink.teardown = "ran"
  /\ ~hist.fired
  /\ last.pre.released
  /\ last.op = "next"
  /\ hist.delivered = <<1>>


\* The last producer call found a safe subscriber to forward to.
ToSafe == last.pre.sink.destination = "safe" /\ WasActive

\* C12, as stated: with no error handler, error(e) throws e to the producer.
C12_Original ==
  (last.op = "error" /\ WasActive /\ ~cfg.error) => last.ret = Throw(last.exc)

\* C13 as stated: when the routine emits 1, 2, 3 and calls complete, all
\* inside subscribe, the complete handler does not fire until the
\* subscribe call has returned.
C13_Original ==
  (hist.phases = <<"sync", "sync", "sync">> /\ cfg.complete /\ pc = "sync")
    => hist.compCalls = 0

\* C13 amended: when the routine emits 1, 2, 3 and calls complete, all
\* inside subscribe, the complete handler fires inside that complete call,
\* before the subscribe call has returned.
C13_CompleteFiresInsideSubscribe ==
  (/\ last.op = "complete"
   /\ last.phase = "sync"
   /\ ToSafe
   /\ cfg.complete
   /\ hist.phases = <<"sync", "sync", "sync">>)
    => last.invoked = "complete" /\ hist.compCalls = 1

C13_Witness ==
  /\ pc = "sync"
  /\ mode = "subscribe"
  /\ last.op = "complete"
  /\ hist.delivered = <<1, 2, 3>>
  /\ Pending(tokens) = {1, 2, 3}
  /\ hist.compCalls = 1

\* C14: in the synchronous window a next call whose handler throws e does
\* not throw: it records e on the parent, releases the safe subscriber and
\* returns no promise.
C14_SyncThrowRecorded ==
  (last.op = "next" /\ last.threw # "none" /\ last.pre.sink.syncErrorThrowable)
    => /\ last.ret = Void
       /\ sink.syncErrorThrown
       /\ sink.syncErrorValue = last.threw
       /\ safe.closed /\ safe.isStopped

C14_Witness ==
  /\ last.op = "next"
  /\ last.phase = "sync"
  /\ last.value = 2
  /\ last.threw = "e2"
  /\ last.ret = Void
  /\ sink.syncErrorValue = "e2"

\* C15, as stated: once subscribe has finished its synchronous phase, by
\* returning or by throwing, syncErrorThrowable is false and a throwing
\* handler is rethrown from next.
C15_Original ==
  pc \in {"returned", "threw"} =>
    /\ ~sink.syncErrorThrowable
    /\ (last.op = "next" /\ last.phase = pc /\ last.threw # "none") =>
         last.ret = Throw(last.threw)

\* C16, as stated: when a next handler throws, the sink is closed and the
\* teardown the routine returned has run, by the time the exception leaves
\* next (late) or subscribe (synchronous).
C16_Original ==
  /\ (last.op = "next" /\ last.phase = "returned" /\ last.threw # "none") =>
       sink.closed /\ sink.teardown # "attached"
  /\ (SyncThrows # {} /\ pc = "threw") =>
       sink.closed /\ sink.teardown # "attached"

\* C17, as stated: when the error or complete handler throws x, the
\* subscription is released and x is rethrown to the caller.
C17_Original ==
  (last.invoked \in {"error", "complete"} /\ last.beh.kind = "throw") =>
    /\ last.ret = last.beh
    /\ sink.closed
    /\ sink.teardown # "attached"

\* C18: a next call made while promises of earlier values are pending
\* invokes the handler at once with its value; any number of promises may
\* be pending together.
C18_NoBackpressure ==
  (last.op = "next" /\ ToSafe /\ cfg.next) =>
    /\ last.invoked = "next"
    /\ hist.delivered # <<>>
    /\ hist.delivered[Len(hist.delivered)] = last.value

C18_Witness ==
  /\ last.op = "next"
  /\ last.value = 3
  /\ Pending(last.pre.tokens) = {1, 2}
  /\ last.invoked = "next"
  /\ Pending(tokens) = {1, 2, 3}

\* C19: once a next handler has thrown, no handler of the subscription is
\* invoked again.
C19_NothingAfterHandlerThrow == last.pre.threw => last.invoked = "none"

C19_Witness ==
  /\ last.pre.threw
  /\ mode = "subscribe"
  /\ last.op = "complete"
  /\ last.phase = "returned"
  /\ cfg.complete
  /\ \E t \in hist.nextThrew : t.phase = "returned"

\* C20, as stated: with a next handler and no complete handler, complete()
\* returns normally and leaves the subscription stopped and released.
C20_Original ==
  (last.op = "complete" /\ ToSafe /\ cfg.next /\ ~cfg.complete) =>
    /\ last.ret = Void
    /\ sink.isStopped
    /\ sink.closed
    /\ sink.teardown # "attached"


\* C11 as stated: with B constructed from A, releasing either releases
\* both.
C11_Original ==
  wrap.made =>
    /\ hist.released => wrap.closed
    /\ wrap.released => sink.closed

\* C11 amended: with B constructed from A, releasing A releases B as well;
\* releasing B releases only B, and A stays open until it is released or
\* terminated itself.
C11_ReleaseFlowsFromDestination ==
  /\ (wrap.made /\ sink.closed) => wrap.closed
  /\ sink.closed => (hist.released \/ hist.fired)

C11_Witness ==
  /\ wrap.made
  /\ hist.released
  /\ wrap.closed
  /\ ~wrap.released
  /\ ~hist.fired
  /\ hist.delivered = <<1>>

====
